---- MODULE Spec2Model ----
(***************************************************************************)
(* Model of src/data_collect_3.py: WNBADataCollector, the rate-limited     *)
(* HTTP client (_make_request) and the incremental season pipeline         *)
(* (collect_season_data), run from main() one process per run against one  *)
(* persistent output root.                                                 *)
(*                                                                         *)
(* JSON objects are functions from keys to values, so that dict.get and a  *)
(* dict[key] that raises KeyError are told apart by DOMAIN.  The remote    *)
(* API is the environment: every response is drawn from a bounded set at   *)
(* the step that receives it; the lists the loops walk (the schedule's     *)
(* games, a team's players) are streams whose next element is drawn when   *)
(* the for-loop asks for it.                                               *)
(***************************************************************************)
EXTENDS Integers, Sequences, FiniteSets, TLC

(* ---------------- bounds of the model ---------------- *)
MaxRuns == 2
MaxGames == 2
MaxAppearances == 2
MaxQuota == 7

(* ---------------- the environment's data ---------------- *)
PlayerIds == {"P1", "P2"}
GameIds == {"G1", "G2"}
Year == "2021"

NoneVal == "<None>"
JsonNull == [null |-> TRUE]
IsNull(v) == "null" \in DOMAIN v

Has(d, k) == k \in DOMAIN d
Get(d, k, default) == IF k \in DOMAIN d THEN d[k] ELSE default
Falsy(s) == s \in {NoneVal, ""}

(* schedule entries: well formed, lacking 'scheduled', lacking 'id' *)
Entries ==
    {[id |-> g, scheduled |-> "day-" \o g] : g \in GameIds}
    \cup {[id |-> "G1"], [scheduled |-> "day-0"]}

(* schedule payloads: with 'games' (a list, streamed), without it, and    *)
(* the empty object                                                        *)
NoGamesKey == [league |-> "WNBA"]
EmptySchedule == [empty |-> TRUE]
ScheduleBodies == {[games |-> "list"], NoGamesKey, EmptySchedule}

(* team blocks of a game summary; 'players' is a list (streamed), JSON     *)
(* null, or missing                                                        *)
TeamBlocks(side) ==
    {[name |-> "Team-" \o side, players |-> "list"],
     [name |-> "Team-" \o side, players |-> "null"],
     [name |-> "Team-" \o side],
     [players |-> "list"]}

GameBodies ==
    {[home |-> h, away |-> a, venue |-> [name |-> "Arena"]] :
        h \in TeamBlocks("home"), a \in TeamBlocks("away")}
    \cup {[home |-> [name |-> "Team-home"], away |-> [name |-> "Team-away"]]}
    \cup {[home |-> h] : h \in TeamBlocks("home")}
    \cup {[away |-> a] : a \in TeamBlocks("away")}
    \cup {[empty |-> TRUE]}

FullStats == [minutes |-> 30, three_points_made |-> 2,
              three_points_att |-> 5, points |-> 12]

(* player appearances: complete, bare (every optional field missing),      *)
(* 'statistics' JSON null, and without identifier                          *)
Appearances ==
    {[id |-> p, full_name |-> "Name-" \o p, starter |-> TRUE,
      statistics |-> FullStats] : p \in PlayerIds}
    \cup {[id |-> "P2"],
          [id |-> "P1", full_name |-> "Name-P1", statistics |-> JsonNull],
          [full_name |-> "Nobody", statistics |-> FullStats]}

(* Python values that reach the profile table *)
S(s) == [k |-> "str", s |-> s]
I(n) == [k |-> "int", n |-> n]
F(n) == [k |-> "float", n |-> n]
NaN == [k |-> "nan"]

(* profile payloads: complete, bare, a JSON list, the empty object *)
ListProfile == [list |-> TRUE]
EmptyProfile == [empty |-> TRUE]
ProfileBodies(p) ==
    {[id |-> p, full_name |-> S("Name-" \o p), position |-> S("G"),
      experience |-> S("5"), height |-> I(72), weight |-> I(165)],
     [id |-> p],
     ListProfile,
     EmptyProfile}

(* Python truthiness of a parsed body: None and {} are falsy *)
Truthy(body) == ~ Has(body, "empty") /\ ~ Has(body, "none")
NoneBody == [none |-> TRUE]


EmptyDict == [x \in {} |-> 0]

(* ---------------- files of the output root ---------------- *)
(* a file name as pathlib sees it: Path.stem and Path.suffix *)
FileName(stem, suffix) == [stem |-> stem, suffix |-> suffix]
PlayerFile(player_id) == FileName("player_" \o player_id, ".json")
GameFile(game_id) == FileName("game_" \o game_id, ".json")
ScheduleFile == FileName("schedule_" \o Year, ".json")
NoFile == [exists |-> FALSE, rows |-> <<>>]
Written(rows) == [exists |-> TRUE, rows |-> rows]

(* ---------------- pandas: the profile table ---------------- *)
Columns == {"player_id", "name", "position", "experience", "height", "weight"}
Numbers == 0..200
IsIntText(t) == \E n \in Numbers : ToString(n) = t
IsFloatText(t) == \E n \in Numbers : ToString(n) \o ".0" = t
IntOf(t) == CHOOSE n \in Numbers : ToString(n) = t
FloatOf(t) == CHOOSE n \in Numbers : ToString(n) \o ".0" = t
IsNA(t) == t = ""

(* DataFrame.to_csv: one text cell per value *)
Format(v) ==
    CASE v.k = "str" -> v.s
      [] v.k = "int" -> ToString(v.n)
      [] v.k = "float" -> ToString(v.n) \o ".0"
      [] v.k = "nan" -> ""
to_csv(df) == [i \in 1..Len(df) |-> [c \in Columns |-> Format(df[i][c])]]

(* pd.read_csv: the dtype of a column is inferred from all of its cells *)
ReadDtype(rows, c) ==
    IF \A i \in 1..Len(rows) : IsIntText(rows[i][c]) THEN "int"
    ELSE IF \A i \in 1..Len(rows) :
              IsIntText(rows[i][c]) \/ IsFloatText(rows[i][c]) \/ IsNA(rows[i][c])
         THEN "float"
    ELSE "object"
Parse(t, dtype) ==
    IF dtype = "int" THEN I(IntOf(t))
    ELSE IF IsNA(t) THEN NaN
    ELSE IF dtype = "object" THEN S(t)
    ELSE IF IsIntText(t) THEN F(IntOf(t))
    ELSE F(FloatOf(t))
read_csv(rows) ==
    [i \in 1..Len(rows) |-> [c \in Columns |-> Parse(rows[i][c], ReadDtype(rows, c))]]

(* pd.DataFrame(list of dicts): a column of ints is int64, else object *)
FrameDtype(df, c) ==
    IF \A i \in 1..Len(df) : df[i][c].k = "int" THEN "int"
    ELSE IF \A i \in 1..Len(df) : df[i][c].k \in {"int", "float", "nan"} THEN "float"
    ELSE "object"
(* pd.concat: int64 with float64 gives float64, anything else object *)
ConcatDtype(a, b) ==
    IF a = "int" /\ b = "int" THEN "int"
    ELSE IF a \in {"int", "float"} /\ b \in {"int", "float"} THEN "float"
    ELSE "object"
Cast(v, dtype) == IF dtype = "float" /\ v.k = "int" THEN F(v.n) ELSE v
concat(old, new) ==
    LET all == old \o new
        dt(c) == ConcatDtype(FrameDtype(old, c), FrameDtype(new, c))
    IN [i \in 1..Len(all) |-> [c \in Columns |-> Cast(all[i][c], dt(c))]]

(* lines 186-197: append the new profile rows to player_profiles.csv *)
MergeProfiles(csv, player_profiles) ==
    IF player_profiles = <<>> THEN csv
    ELSE IF csv.exists
         THEN Written(to_csv(concat(read_csv(csv.rows), player_profiles)))
         ELSE Written(to_csv(player_profiles))

(* ---------------- the HTTP client ---------------- *)
Outcomes == {"ok", "status", "badjson", "raise"}
(* a key with no calls left is refused: a non-200 status, or no answer *)
OutcomesAt(q) == IF q > 0 THEN Outcomes ELSE {"status", "raise"}
QuotaAfter(q, outcome) == IF outcome # "raise" /\ q > 0 THEN q - 1 ELSE q
(* lines 20-33: the GET returned a response unless it raised *)
Responded(outcome) == outcome # "raise"
(* lines 22-23: counter and delay follow a GET that returned *)
CallsAfter(calls, outcome) == IF Responded(outcome) THEN calls + 1 ELSE calls
SleepsAfter(n, outcome) == IF Responded(outcome) THEN n + 1 ELSE n
(* lines 25-33: the parsed body on 200, None on anything else *)
Result(outcome, body) == IF outcome = "ok" THEN body ELSE NoneBody


(* ---------------- state ---------------- *)
VARIABLES
    pc,                 \* position of the process in main / collect_season_data
    runs,               \* processes started so far
    quota,              \* calls the API key has left (the budget of line 213)
    api_calls,          \* self.api_calls
    sleeps,             \* time.sleep(self.sleep_time) calls of this process
    requests_made,      \* invocations of _make_request by this process
    players_dir,        \* file names in {root}/Players
    year_dir,           \* raw JSON files this process wrote in {root}/{year}
    games_csv,          \* games_{year}.csv as this process wrote it
    stats_csv,          \* player_game_stats_{year}.csv as this process wrote it
    profiles_csv,       \* {root}/player_profiles.csv, as text cells
    schedule,           \* line 77
    gi,                 \* games the loop of line 98 has yielded
    existing_players,   \* line 83
    all_players,        \* line 84
    games_data,         \* line 87
    player_game_stats,  \* line 88
    fetched,            \* game ids whose statistics request returned data
    game,               \* loop variable of line 98
    game_stats,         \* line 102
    team,               \* loop variable of line 116
    roster_n,           \* appearances the rosters have yielded to this process
    player,             \* loop variable of line 118
    new_players,        \* line 159
    pending,            \* members of list(new_players) not yet iterated
    requested,          \* player ids passed to get_player_profile, in order
    profile,            \* line 170
    player_profiles,    \* line 162
    emptied,            \* ids whose last profile request came back empty
    warnings,           \* "Warning: Missing player ID" messages printed
    errors,             \* "Error processing player" messages printed
    reported            \* the total printed by line 199

client == <<api_calls, sleeps, requests_made>>
disk == <<players_dir, year_dir, games_csv, stats_csv, profiles_csv>>
gameloop == <<schedule, gi, game, game_stats, team, roster_n, player>>
tables == <<all_players, games_data, player_game_stats, fetched, warnings, errors>>
backfill == <<new_players, pending, requested, profile, player_profiles>>
vars == <<pc, runs, quota, client, disk, gameloop, existing_players, tables, backfill,
          emptied, reported>>

NoGame == [none |-> TRUE]
NoPlayer == [none |-> TRUE]
NotReported == 0 - 1

Init ==
    /\ pc = "idle"
    /\ runs = 0
    /\ quota = MaxQuota
    /\ api_calls = 0 /\ sleeps = 0 /\ requests_made = 0
    /\ players_dir = {} /\ year_dir = {}
    /\ games_csv = NoFile /\ stats_csv = NoFile /\ profiles_csv = NoFile
    /\ schedule = NoneBody /\ gi = 0 /\ game = NoGame /\ game_stats = NoGame
    /\ team = "none" /\ roster_n = 0 /\ player = NoPlayer
    /\ existing_players = {} /\ all_players = {}
    /\ games_data = <<>> /\ player_game_stats = <<>> /\ fetched = <<>>
    /\ new_players = {} /\ pending = {} /\ requested = <<>>
    /\ player_profiles = <<>> /\ profile = NoneBody /\ emptied = {}
    /\ warnings = 0 /\ errors = 0 /\ reported = NotReported

(* lines 66-68: the stems of the *.json files of the Players directory *)
get_existing_players(dir) == {f.stem : f \in {g \in dir : g.suffix = ".json"}}

(* lines 201-207, 10-14, 73: a new process, a new collector, the layout.  *)
(* The files of the season directory are only ever overwritten, never     *)
(* read: what an earlier process left there reaches no later step, and    *)
(* the model follows what the current process has written.                *)
main ==
    /\ pc \in {"idle", "done", "aborted"}
    /\ runs < MaxRuns
    /\ runs' = runs + 1
    /\ api_calls' = 0 /\ sleeps' = 0 /\ requests_made' = 0
    /\ schedule' = NoneBody /\ gi' = 0 /\ game' = NoGame /\ game_stats' = NoGame
    /\ team' = "none" /\ roster_n' = 0 /\ player' = NoPlayer
    /\ existing_players' = {} /\ all_players' = {}
    /\ games_data' = <<>> /\ player_game_stats' = <<>> /\ fetched' = <<>>
    /\ new_players' = {} /\ pending' = {} /\ requested' = <<>>
    /\ player_profiles' = <<>> /\ profile' = NoneBody
    /\ warnings' = 0 /\ errors' = 0 /\ reported' = NotReported
    /\ year_dir' = {} /\ games_csv' = NoFile /\ stats_csv' = NoFile
    /\ pc' = "schedule"
    /\ UNCHANGED <<quota, players_dir, profiles_csv, emptied>>

(* lines 76-96: the schedule request, its raw file, the baseline *)
get_season_games ==
    /\ pc = "schedule"
    /\ \E outcome \in OutcomesAt(quota), body \in ScheduleBodies :
         LET sched == Result(outcome, body)
         IN /\ api_calls' = CallsAfter(api_calls, outcome)
            /\ sleeps' = SleepsAfter(sleeps, outcome)
            /\ quota' = QuotaAfter(quota, outcome)
            /\ requests_made' = requests_made + 1
            /\ year_dir' = IF Truthy(sched) THEN year_dir \cup {ScheduleFile}
                           ELSE year_dir
            /\ existing_players' = get_existing_players(players_dir)
            /\ schedule' = sched
            /\ pc' = IF Truthy(sched) /\ Has(sched, "games") THEN "games" ELSE "save"
    /\ UNCHANGED <<runs, players_dir, games_csv, stats_csv, profiles_csv, gi,
                   game, game_stats, team, roster_n, player, tables, backfill,
                   emptied, reported>>


(* lines 116-118: the next team block that has 'players'; iterating a     *)
(* roster that is JSON null raises TypeError outside every try             *)
RECURSIVE Position(_, _)
Position(gs, teams) ==
    IF teams = <<>> THEN [pc |-> "games", team |-> "none"]
    ELSE IF ~ Has(gs[Head(teams)], "players")
         THEN Position(gs, Tail(teams))
    ELSE IF gs[Head(teams)].players = "null"
         THEN [pc |-> "aborted", team |-> Head(teams)]
    ELSE [pc |-> "roster", team |-> Head(teams)]

(* lines 108-114: the subscripts that raise KeyError on a missing key *)
HeaderRaises(entry, gs) ==
    \/ ~ Has(entry, "scheduled")
    \/ ~ Has(gs, "home") \/ ~ Has(gs.home, "name")
    \/ ~ Has(gs, "away") \/ ~ Has(gs.away, "name")

(* lines 108-114 *)
GameInfo(entry, gs) ==
    [game_id |-> entry.id,
     date |-> entry.scheduled,
     home_team |-> gs.home.name,
     away_team |-> gs.away.name,
     venue |-> Get(Get(gs, "venue", EmptyDict), "name", "")]

(* the raw payload written without looking at the result *)
SaveGame_Unguarded(dir, entry, gs) == dir \cup {GameFile(entry.id)}

(* lines 103-106: the raw payload of a game is saved when there is one *)
SaveGame(dir, entry, gs) ==
    IF Truthy(gs) THEN dir \cup {GameFile(entry.id)} ELSE dir

(* game and game_stats are read only inside the roster loops: outside    *)
(* them the names are dead until the next iteration rebinds them          *)
Live(p, v) == IF p = "roster" THEN v ELSE NoGame

(* lines 98-117: the schedule yields one more game; one iteration of the *)
(* game loop up to the roster loops                                       *)
get_game_statistics ==
    /\ pc = "games"
    /\ gi < MaxGames
    /\ gi' = gi + 1
    /\ \E entry \in Entries :
       IF ~ Has(entry, "id")
       THEN /\ pc' = "aborted"
            /\ game' = NoGame
            /\ UNCHANGED <<quota, client, year_dir, fetched, games_data,
                           game_stats, team>>
       ELSE \E outcome \in OutcomesAt(quota), body \in GameBodies :
            LET gs == Result(outcome, body)
                pos == Position(gs, <<"home", "away">>)
            IN /\ api_calls' = CallsAfter(api_calls, outcome)
               /\ sleeps' = SleepsAfter(sleeps, outcome)
               /\ quota' = QuotaAfter(quota, outcome)
               /\ requests_made' = requests_made + 1
               /\ year_dir' = SaveGame(year_dir, entry, gs)
               /\ fetched' = IF outcome = "ok" /\ ~ Has(body, "empty")
                             THEN Append(fetched, entry.id) ELSE fetched
               /\ IF ~ Truthy(gs)
                  THEN UNCHANGED <<pc, games_data, team>>
                  ELSE IF HeaderRaises(entry, gs)
                  THEN /\ pc' = "aborted"
                       /\ UNCHANGED <<games_data, team>>
                  ELSE /\ games_data' = Append(games_data, GameInfo(entry, gs))
                       /\ pc' = pos.pc /\ team' = pos.team
               /\ game_stats' = Live(pc', gs)
               /\ game' = Live(pc', entry)
    /\ UNCHANGED <<runs, players_dir, games_csv, stats_csv, profiles_csv, schedule,
                   roster_n, player, existing_players, all_players,
                   player_game_stats, warnings, errors, backfill, emptied,
                   reported>>

(* line 98: the schedule's games are exhausted *)
end_schedule ==
    /\ pc = "games"
    /\ pc' = "save"
    /\ UNCHANGED <<runs, quota, client, disk, gameloop, existing_players, tables,
                   backfill, emptied, reported>>

(* lines 128-142: the stat row of one appearance *)
PlayerStats(entry, gs, side, p, player_id) ==
    LET stats == Get(p, "statistics", EmptyDict)
    IN [game_id |-> entry.id,
        game_date |-> entry.scheduled,
        player_id |-> player_id,
        player_name |-> Get(p, "full_name", "Unknown"),
        team |-> gs[side].name,
        opponent |-> gs[IF side = "home" THEN "away" ELSE "home"].name,
        home_away |-> side,
        starter |-> Get(p, "starter", FALSE),
        minutes |-> Get(stats, "minutes", 0),
        three_points_made |-> Get(stats, "three_points_made", 0),
        three_points_att |-> Get(stats, "three_points_att", 0),
        points |-> Get(stats, "points", 0)]

(* lines 128-142 raise inside the try when 'statistics' is not an object *)
StatsRaise(p) == IsNull(Get(p, "statistics", EmptyDict))

(* the warning of line 122 without its continue: the appearance falls    *)
(* through to the row                                                      *)
ProcessPlayer_NoContinue(acc, entry, gs, side, p) ==
    LET player_id == Get(p, "id", NoneVal)
        warned == IF Falsy(player_id) THEN [acc EXCEPT !.warnings = @ + 1] ELSE acc
    IN IF StatsRaise(p)
       THEN [warned EXCEPT !.all_players = @ \cup {player_id}, !.errors = @ + 1]
       ELSE [warned EXCEPT !.all_players = @ \cup {player_id},
                           !.player_game_stats =
                               Append(@, PlayerStats(entry, gs, side, p, player_id))]

(* lines 119-148: what one appearance does to the accumulators *)
ProcessPlayer(acc, entry, gs, side, p) ==
    LET player_id == Get(p, "id", NoneVal)
    IN IF Falsy(player_id)
       THEN [acc EXCEPT !.warnings = @ + 1]
       ELSE IF StatsRaise(p)
       THEN [acc EXCEPT !.all_players = @ \cup {player_id}, !.errors = @ + 1]
       ELSE [acc EXCEPT !.all_players = @ \cup {player_id},
                        !.player_game_stats =
                            Append(@, PlayerStats(entry, gs, side, p, player_id))]

Accumulators ==
    [all_players |-> all_players, player_game_stats |-> player_game_stats,
     warnings |-> warnings, errors |-> errors]

(* lines 118-148: the roster yields one more appearance *)
process_player ==
    /\ pc = "roster"
    /\ roster_n < MaxAppearances
    /\ \E p \in Appearances :
         LET acc == ProcessPlayer(Accumulators, game, game_stats, team, p)
         IN /\ player' = p
            /\ all_players' = acc.all_players
            /\ player_game_stats' = acc.player_game_stats
            /\ warnings' = acc.warnings
            /\ errors' = acc.errors
    /\ roster_n' = roster_n + 1
    /\ UNCHANGED <<pc, runs, quota, client, disk, schedule, gi, game, game_stats,
                   team, existing_players, games_data, fetched, backfill, emptied,
                   reported>>

TeamsAfter(side) == IF side = "home" THEN <<"away">> ELSE <<>>

(* lines 116-118: the roster is exhausted; on to the next team or game *)
end_roster ==
    /\ pc = "roster"
    /\ LET pos == Position(game_stats, TeamsAfter(team))
       IN pc' = pos.pc /\ team' = pos.team
    /\ player' = NoPlayer
    /\ game' = Live(pc', game)
    /\ game_stats' = Live(pc', game_stats)
    /\ UNCHANGED <<runs, quota, client, disk, schedule, gi, roster_n,
                   existing_players, tables, backfill, emptied, reported>>


(* lines 150-161 (and 199 when there is no new player): both season tables *)
(* are rewritten, then the novel identifiers are computed                  *)
save_tables ==
    /\ pc = "save"
    /\ games_csv' = Written(games_data)
    /\ stats_csv' = Written(player_game_stats)
    /\ new_players' = all_players \ existing_players
    /\ pending' = new_players'
    /\ player_profiles' = <<>>
    /\ IF new_players' = {}
       THEN pc' = "done" /\ reported' = api_calls
       ELSE pc' = "profiles" /\ UNCHANGED reported
    /\ UNCHANGED <<runs, quota, client, players_dir, year_dir, profiles_csv,
                   gameloop, existing_players, tables, requested, profile, emptied>>

(* lines 176-183: profile.get on a JSON list raises AttributeError *)
ProfileRaises(prof) == Has(prof, "list")

(* lines 176-183 *)
PlayerInfo(player_id, prof) ==
    [player_id |-> S(player_id),
     name |-> Get(prof, "full_name", S("")),
     position |-> Get(prof, "position", S("")),
     experience |-> Get(prof, "experience", S("")),
     height |-> Get(prof, "height", I(0)),
     weight |-> Get(prof, "weight", I(0))]

(* the raw profile written without looking at the result *)
SaveProfile_Unguarded(dir, player_id, prof) == dir \cup {PlayerFile(player_id)}

(* lines 171-174: the raw profile is saved when there is one *)
SaveProfile(dir, player_id, prof) ==
    IF Truthy(prof) THEN dir \cup {PlayerFile(player_id)} ELSE dir

(* lines 168-184: one iteration of the profile loop *)
get_player_profile ==
    /\ pc = "profiles"
    /\ pending # {}
    /\ \E player_id \in pending, outcome \in OutcomesAt(quota) :
       \E body \in ProfileBodies(player_id) :
         LET prof == Result(outcome, body)
         IN /\ api_calls' = CallsAfter(api_calls, outcome)
            /\ sleeps' = SleepsAfter(sleeps, outcome)
            /\ quota' = QuotaAfter(quota, outcome)
            /\ requests_made' = requests_made + 1
            /\ requested' = Append(requested, player_id)
            /\ pending' = pending \ {player_id}
            /\ profile' = prof
            /\ emptied' = IF outcome = "ok" /\ ~ Has(body, "empty")
                          THEN emptied \ {player_id}
                          ELSE emptied \cup {player_id}
            /\ players_dir' = SaveProfile(players_dir, player_id, prof)
            /\ IF ~ Truthy(prof)
               THEN UNCHANGED <<player_profiles, pc>>
               ELSE IF ProfileRaises(prof)
               THEN pc' = "aborted" /\ UNCHANGED player_profiles
               ELSE /\ player_profiles' =
                        Append(player_profiles, PlayerInfo(player_id, prof))
                    /\ UNCHANGED pc
    /\ UNCHANGED <<runs, year_dir, games_csv, stats_csv, profiles_csv, gameloop,
                   existing_players, tables, new_players, reported>>

(* lines 186-199: the merge into player_profiles.csv and the final report *)
merge_profiles ==
    /\ pc = "profiles"
    /\ pending = {}
    /\ profiles_csv' = MergeProfiles(profiles_csv, player_profiles)
    /\ reported' = api_calls
    /\ pc' = "done"
    /\ UNCHANGED <<runs, quota, client, players_dir, year_dir, games_csv,
                   stats_csv, gameloop, existing_players, tables, backfill, emptied>>

Next ==
    \/ main
    \/ get_season_games
    \/ get_game_statistics
    \/ end_schedule
    \/ process_player
    \/ end_roster
    \/ save_tables
    \/ get_player_profile
    \/ merge_profiles

Spec == Init /\ [][Next]_vars

(* one process on a fresh output root *)
first_main == runs = 0 /\ main
NextProcess ==
    \/ first_main
    \/ get_season_games
    \/ get_game_statistics
    \/ end_schedule
    \/ process_player
    \/ end_roster
    \/ save_tables
    \/ get_player_profile
    \/ merge_profiles
SpecProcess == Init /\ [][NextProcess]_vars

TypeOK == pc \in {"idle", "schedule", "games", "roster", "save", "profiles",
                  "done", "aborted"}

(* ======================= the claims ======================= *)
Range(q) == {q[i] : i \in 1..Len(q)}
NoRepeats(q) == \A i, j \in 1..Len(q) : i # j => q[i] # q[j]
(* player_{id}.json was in the Players directory when line 83 listed it *)
PersistedAtBaseline(id) == PlayerFile(id).stem \in existing_players
(* steps, told apart by what only they change *)
PlayerStep == roster_n' = roster_n + 1
GameStep == pc = "games" /\ requests_made' = requests_made + 1
ProfileStep == pc = "profiles" /\ requests_made' = requests_made + 1
MergeStep == pc = "profiles" /\ pc' = "done"

(* C1: once the novel identifiers are computed, the identifiers requested  *)
(* or still to be requested are exactly the identifiers seen in this run   *)
(* minus those whose player_{id}.json existed at the baseline, and none is *)
(* requested twice.                                                        *)
C1_RequestsAreSeenMinusPersisted ==
    pc \in {"profiles", "done"} =>
        /\ Range(requested) \cup pending =
               {id \in all_players : ~ PersistedAtBaseline(id)}
        /\ NoRepeats(requested)

(* C2: player_profiles.csv never holds two rows with the same player      *)
(* identifier.                                                             *)
C2_OneRowPerPlayer ==
    NoRepeats([i \in 1..Len(profiles_csv.rows) |-> profiles_csv.rows[i].player_id])

(* C3: every invocation of _make_request has slept once by the time it    *)
(* returns: after N invocations, N delays.                                 *)
C3_DelayPerInvocation == sleeps = requests_made

(* C4: with no local I/O failure a run never aborts, whatever the API     *)
(* answers.                                                                *)
C4_NeverAborts == pc # "aborted"

(* C5: the counter counts every invocation of _make_request, and the      *)
(* total reported at the end is one schedule request plus one per game    *)
(* plus one per novel identifier.                                          *)
C5_CounterCountsInvocations ==
    /\ api_calls = requests_made
    /\ pc = "done" => reported = 1 + gi + Cardinality(new_players)

(* what the stat row of appearance p must hold *)
RowMatches(row, p) ==
    /\ row.player_id = p.id
    /\ row.game_id = game.id
    /\ row.home_away = team
    /\ row.player_name = (IF Has(p, "full_name") THEN p.full_name ELSE "Unknown")
    /\ \A f \in {"minutes", "three_points_made", "three_points_att", "points"} :
          row[f] = (IF Has(p, "statistics") /\ Has(p.statistics, f)
                    THEN p.statistics[f] ELSE 0)
OneRowAppended ==
    /\ Len(player_game_stats') = Len(player_game_stats) + 1
    /\ SubSeq(player_game_stats', 1, Len(player_game_stats)) = player_game_stats
    /\ RowMatches(player_game_stats'[Len(player_game_stats')], player')
SkippedWithWarning ==
    /\ player_game_stats' = player_game_stats
    /\ all_players' = all_players
    /\ warnings' = warnings + 1

(* C6 as stated: an appearance with an identifier appends exactly one     *)
(* stat row (statistics defaulted to 0, name to 'Unknown'); one without    *)
(* appends none, leaves the seen set alone and prints one warning.         *)
C6_OneRowPerIdentified ==
    [][PlayerStep =>
        IF Has(player', "id") THEN OneRowAppended ELSE SkippedWithWarning]_vars

(* C6 as amended: an appearance with an identifier whose row derivation   *)
(* raises nothing appends exactly one stat row with the defaults; one     *)
(* whose derivation raises (statistics is JSON null) appends none and      *)
(* prints one error; one without identifier appends none, leaves the seen  *)
(* set alone and prints one warning.                                       *)
C6_OneRowPerWellFormed ==
    [][PlayerStep =>
        IF ~ Has(player', "id") THEN SkippedWithWarning /\ errors' = errors
        ELSE IF IsNull(Get(player', "statistics", EmptyDict))
        THEN /\ player_game_stats' = player_game_stats
             /\ errors' = errors + 1 /\ warnings' = warnings
        ELSE OneRowAppended /\ warnings' = warnings /\ errors' = errors]_vars

(* a malformed appearance was skipped after a well-formed one gave a row *)
C6_Witness ==
    /\ pc = "roster" /\ Has(player, "id") /\ StatsRaise(player)
    /\ errors = 1 /\ Len(player_game_stats) = 1

(* C7: a game whose statistics request comes back empty leaves no raw     *)
(* file, no game row, no stat row and no identifier, and the loop goes on  *)
(* to the next game; the games table written at the end has one row per    *)
(* game whose request brought data, in the order of the schedule.          *)
C7_EmptyGameSkipped ==
    /\ [][(GameStep /\ fetched' = fetched) =>
            /\ year_dir' = year_dir
            /\ games_data' = games_data
            /\ player_game_stats' = player_game_stats
            /\ all_players' = all_players
            /\ pc' = "games"]_vars
    /\ [](games_csv.exists =>
            [i \in 1..Len(games_csv.rows) |-> games_csv.rows[i].game_id] = fetched)

(* the second game of the schedule is being processed after the first     *)
(* came back empty                                                         *)
C7_Witness ==
    /\ pc = "roster" /\ gi = 2 /\ requests_made = 3 /\ Len(fetched) = 1
    /\ Len(games_data) = 1 /\ year_dir = {ScheduleFile, GameFile(game.id)}

(* C8: a profile request that comes back empty writes no file and adds no *)
(* row, and the loop goes on; an identifier left without profile that is   *)
(* seen again is novel again, and every novel identifier is requested.     *)
C8_EmptyProfileRetried ==
    /\ [][(ProfileStep /\ ~ Truthy(profile')) =>
            /\ players_dir' = players_dir
            /\ player_profiles' = player_profiles
            /\ profiles_csv' = profiles_csv
            /\ pc' = "profiles"]_vars
    /\ [](pc \in {"profiles", "done"} =>
            \A id \in emptied \cap all_players :
                id \in new_players /\ id \in Range(requested) \cup pending)

(* in a second run, an identifier whose request came back empty in the    *)
(* first is about to be requested again                                    *)
C8_Witness ==
    /\ runs = 2 /\ pc = "profiles" /\ requested = <<>>
    /\ emptied # {} /\ emptied \subseteq pending

(* C9: the merge leaves the table alone when there is no new row, and     *)
(* otherwise writes the existing rows, unchanged and in order, followed by *)
(* the new rows.                                                           *)
C9_MergeAppends ==
    [][MergeStep =>
        profiles_csv' =
            IF player_profiles = <<>> THEN profiles_csv
            ELSE Written(profiles_csv.rows \o to_csv(player_profiles))]_vars

(* C10: every identifier in the seen set, and so every identifier whose   *)
(* profile is requested, has a stat row in this run.                       *)
C10_SeenHasRow ==
    \A id \in all_players \cup Range(requested) :
        \E i \in 1..Len(player_game_stats) : player_game_stats[i].player_id = id
====
